---- MODULE Spec2Model ----
(***************************************************************************)
(* Signature key derivation (src/typescript/cli.ts): the encoding layer    *)
(* (strict hex decoding, numeric id parsing, fixed-width big-endian        *)
(* encoding), the two HKDF derivations built on it, and the interactive    *)
(* shell that calls them.                                                  *)
(*                                                                         *)
(* Texts are sequences of one-character strings.  Byte strings are         *)
(* sequences over 0..255.  A big integer is a sign and a magnitude kept as *)
(* its base-256 digits, most significant first, with no leading zero, so   *)
(* that values beyond the checker's machine integers (2^53, 2^64) keep     *)
(* their exact value.  HKDF-SHA256 is a lazily sampled random oracle: the  *)
(* table of the queries made so far is part of the state, equal queries    *)
(* read the same output stream and distinct queries read distinct streams. *)
(***************************************************************************)
EXTENDS Integers, Sequences, FiniteSets, TLC

VARIABLES calls, oracle, pc, arg, ret, shell

vars == <<calls, oracle, pc, arg, ret, shell>>

-----------------------------------------------------------------------------
(* Sequences                                                               *)

Last(s) == s[Len(s)]

Front(s) == SubSeq(s, 1, Len(s) - 1)

\* n copies of s, one after the other
Repeat(s, n) == [i \in 1..(n * Len(s)) |-> s[((i - 1) % Len(s)) + 1]]

Reverse(s) == [i \in 1..Len(s) |-> s[Len(s) + 1 - i]]

Range(s) == {s[i] : i \in 1..Len(s)}

StartsWith(s, p) == Len(s) >= Len(p) /\ SubSeq(s, 1, Len(p)) = p

-----------------------------------------------------------------------------
(* Results: a returned value, or a thrown error.  An error keeps the class *)
(* of the thrown object, the template of its message, the field name the   *)
(* message interpolates ("" when it names none) and the length it reports. *)

Ok(v) == [ok |-> TRUE, val |-> v]

Throw(type, msg, field, got) ==
    [ok |-> FALSE, err |-> [type |-> type, msg |-> msg, field |-> field, got |-> got]]

-----------------------------------------------------------------------------
(* Characters                                                              *)

WS == {" ", "\t"}

DecDigits == <<"0", "1", "2", "3", "4", "5", "6", "7", "8", "9">>

LowerHex == DecDigits \o <<"a", "b", "c", "d", "e", "f">>

UpperHex == DecDigits \o <<"A", "B", "C", "D", "E", "F">>

IsDecDigit(c) == c \in Range(DecDigits)

IsHexDigit(c) == c \in Range(LowerHex) \cup Range(UpperHex)

\* The value of a hex digit, either case.
HexVal(c) ==
    IF c \in Range(LowerHex)
    THEN (CHOOSE i \in 1..16 : LowerHex[i] = c) - 1
    ELSE (CHOOSE i \in 1..16 : UpperHex[i] = c) - 1

\* String.prototype.trim
RECURSIVE TrimLeft(_)
TrimLeft(s) == IF s # <<>> /\ Head(s) \in WS THEN TrimLeft(Tail(s)) ELSE s

RECURSIVE TrimRight(_)
TrimRight(s) == IF s # <<>> /\ Last(s) \in WS THEN TrimRight(Front(s)) ELSE s

\* Fault: white space removed at the front only
TrimLeftOnly(s) == TrimLeft(s)

Trim(s) == TrimRight(TrimLeft(s))

Has0xPrefix(t) == StartsWith(t, <<"0", "x">>) \/ StartsWith(t, <<"0", "X">>)

Slice2(t) == SubSeq(t, 3, Len(t))

-----------------------------------------------------------------------------
(* Big integers: [neg, mag], mag the base-256 digits, most significant     *)
(* first, no leading zero; zero is the empty magnitude.                    *)

\* b without its leading zero digits
StripZeros(b) ==
    LET nz == {i \in 1..Len(b) : b[i] # 0}
    IN  IF nz = {} THEN <<>>
        ELSE SubSeq(b, CHOOSE i \in nz : \A j \in nz : i <= j, Len(b))

Big(neg, mag) == [neg |-> neg /\ mag # <<>>, mag |-> mag]

BigZero == Big(FALSE, <<>>)

\* mag * m + carry on the digits least significant first
RECURSIVE MulAddLE(_, _, _)
MulAddLE(le, m, carry) ==
    IF le = <<>>
    THEN IF carry = 0 THEN <<>> ELSE <<carry % 256>> \o MulAddLE(<<>>, m, carry \div 256)
    ELSE LET t == Head(le) * m + carry
         IN  <<t % 256>> \o MulAddLE(Tail(le), m, t \div 256)

MulAdd(mag, m, a) == StripZeros(Reverse(MulAddLE(Reverse(mag), m, a)))

RECURSIVE NatMag(_)
NatMag(n) == IF n = 0 THEN <<>> ELSE NatMag(n \div 256) \o <<n % 256>>

BigFromNat(n) == Big(FALSE, NatMag(n))

\* magnitudes compared: more digits is larger, else the first differing digit
MagLess(a, b) ==
    \/ Len(a) < Len(b)
    \/ /\ Len(a) = Len(b)
       /\ \E i \in 1..Len(a) : a[i] < b[i] /\ SubSeq(a, 1, i - 1) = SubSeq(b, 1, i - 1)

BigIsNegative(v) == v.neg

BigLess(a, b) ==
    IF a.neg # b.neg THEN a.neg
    ELSE IF a.neg THEN MagLess(b.mag, a.mag) ELSE MagLess(a.mag, b.mag)

\* ds with zeros in front up to a multiple of n digits
PadDigits(ds, n) == Repeat(<<"0">>, (n - (Len(ds) % n)) % n) \o ds

\* Hex digits as a magnitude: two digits are one base-256 digit
ParseHex(ds) ==
    LET p == PadDigits(ds, 2)
    IN  StripZeros([i \in 1..(Len(p) \div 2) |->
                       16 * HexVal(p[2 * i - 1]) + HexVal(p[2 * i])])

\* Decimal digits as a magnitude, six digits at a time: the value so far
\* times 10^6 plus the next six digits
DecChunk(p, k) ==
    LET d(j) == HexVal(p[6 * (k - 1) + j])
    IN  100000 * d(1) + 10000 * d(2) + 1000 * d(3) + 100 * d(4) + 10 * d(5) + d(6)

RECURSIVE ParseDecimalLE(_, _)
ParseDecimalLE(p, k) ==
    IF k = 0 THEN <<>> ELSE MulAddLE(ParseDecimalLE(p, k - 1), 1000000, DecChunk(p, k))

ParseDecimal(ds) ==
    LET p == PadDigits(ds, 6)
    IN  StripZeros(Reverse(ParseDecimalLE(p, Len(p) \div 6)))

\* BigInt(text): StringToBigInt.  Surrounding whitespace is ignored, the empty
\* text is 0n, a 0x/0X prefix takes hex digits and no sign, a decimal literal
\* may carry a sign; anything else is a SyntaxError.
BigIntOfText(text) ==
    LET s == Trim(text)
        signed == s # <<>> /\ Head(s) \in {"-", "+"}
        body == IF signed THEN Tail(s) ELSE s
    IN  IF s = <<>> THEN Ok(BigZero)
        ELSE IF Has0xPrefix(s)
        THEN IF Len(s) > 2 /\ \A i \in 3..Len(s) : IsHexDigit(s[i])
             THEN Ok(Big(FALSE, ParseHex(Slice2(s))))
             ELSE Throw("SyntaxError", "Cannot convert to a BigInt", "", 0)
        ELSE IF body # <<>> /\ \A i \in 1..Len(body) : IsDecDigit(body[i])
        THEN Ok(Big(signed /\ Head(s) = "-", ParseDecimal(body)))
        ELSE Throw("SyntaxError", "Cannot convert to a BigInt", "", 0)

\* A machine number: an integer-valued double [cls |-> "int", neg, mag], a
\* finite non-integer ("frac"), NaN ("nan") or an infinity ("inf").
Number(cls, neg, mag) == [t |-> "number", cls |-> cls, neg |-> neg, mag |-> mag]

NumberIsFinite(n) == n.cls \in {"int", "frac"}

NumberIsInteger(n) == n.cls = "int"

NumberIsNegative(n) == n.cls # "nan" /\ n.neg /\ (n.cls # "int" \/ n.mag # <<>>)

\* BigInt(number) of an integer-valued number
BigIntOfNumber(n) == Big(n.neg, n.mag)

\* Number.MAX_SAFE_INTEGER = 2^53 - 1 = 0x1fffffffffffff
MaxSafeIntegerMag == <<31>> \o Repeat(<<255>>, 6)

\* (1n << 64n) - 1n
Uint64Max == Big(FALSE, Repeat(<<255>>, 8))

-----------------------------------------------------------------------------
(* Encoding layer                                                          *)

\* Fault: only the lower-case prefix 0x is removed
strip0xLowerOnly(s) ==
    LET t == Trim(s)
    IN  IF StartsWith(t, <<"0", "x">>) THEN Slice2(t) ELSE t

strip0x(s) ==
    LET t == Trim(s)
    IN  IF Has0xPrefix(t) THEN Slice2(t) ELSE t

\* hex.decode of @scure/base on a text of even length: letters of either case,
\* an error on any character outside the hex alphabet.
hexDecode(clean) ==
    IF \A i \in 1..Len(clean) : IsHexDigit(clean[i])
    THEN Ok([i \in 1..(Len(clean) \div 2) |->
                16 * HexVal(clean[2 * i - 1]) + HexVal(clean[2 * i])])
    ELSE Throw("Error", "Unknown letter", "", 0)

\* hex.encode of @scure/base: two lowercase digits per byte
hexEncode(bytes) ==
    [i \in 1..(2 * Len(bytes)) |->
        IF i % 2 = 1 THEN LowerHex[(bytes[(i + 1) \div 2] \div 16) + 1]
        ELSE LowerHex[(bytes[i \div 2] % 16) + 1]]

hexToBytesStrict(input) ==
    LET clean == strip0x(input)
    IN  IF Len(clean) = 0
        THEN Throw("Error", "Hex string cannot be empty", "", 0)
        ELSE IF Len(clean) % 2 # 0
        THEN Throw("Error", "Hex string must have even length", "", Len(clean))
        ELSE LET r == hexDecode(clean)
             IN  IF r.ok THEN r ELSE Throw("Error", "Invalid hex string", "", 0)

\* A byte input is a text [t |-> "string", s] or binary [t |-> "bytes", b].
Str(s) == [t |-> "string", s |-> s]

Bin(b) == [t |-> "bytes", b |-> b]

toBytes(input) ==
    IF input.t = "string" THEN hexToBytesStrict(input.s) ELSE Ok(input.b)

\* Fault: the digits without the 0x in front
bytesToHexBare(bytes) == hexEncode(bytes)

bytesToHex0x(bytes) == <<"0", "x">> \o hexEncode(bytes)

\* An option number: [cls |-> "int", v] or a non-integer [cls |-> "frac", v].
Int32(v) == [cls |-> "int", v |-> v]

Frac(v) == [cls |-> "frac", v |-> v]

assertPositiveInt(n, name) ==
    IF n.cls # "int" \/ n.v <= 0
    THEN Throw("Error", "must be a positive integer", name, 0)
    ELSE Ok(TRUE)

\* Fault: the floor itself is refused
assertLongerThan(bytes, min, name) ==
    IF Len(bytes) <= min
    THEN Throw("Error", "must be at least min bytes", name, Len(bytes))
    ELSE Ok(TRUE)

assertMinLength(bytes, min, name) ==
    IF Len(bytes) < min
    THEN Throw("Error", "must be at least min bytes", name, Len(bytes))
    ELSE Ok(TRUE)

\* Fault: only a short input is refused
assertNotShorter(bytes, len, name) ==
    IF Len(bytes) < len
    THEN Throw("Error", "must be exactly len bytes", name, Len(bytes))
    ELSE Ok(TRUE)

assertExactLength(bytes, len, name) ==
    IF Len(bytes) # len
    THEN Throw("Error", "must be exactly len bytes", name, Len(bytes))
    ELSE Ok(TRUE)

\* (v >> 8k) & 0xff and v >> 8k of the magnitude v
LowByteAfterShift(v, k) == IF k < Len(v) THEN v[Len(v) - k] ELSE 0

ShiftRightBytes(v, k) == SubSeq(v, 1, Len(v) - k)

\* Fault: v is shifted before its low byte is read
FixedBELoopShiftFirst(v, width) ==
    [out |-> [i \in 1..width |-> LowByteAfterShift(v, width - i + 1)],
     v |-> ShiftRightBytes(v, width)]

\* Fault: the bytes are written from the front, least significant first
FixedBELoopFromFront(v, width) ==
    [out |-> [i \in 1..width |-> LowByteAfterShift(v, i - 1)],
     v |-> ShiftRightBytes(v, width)]

\* The loop of uintToFixedBE: the pass that writes out[i] is pass width - i,
\* counted from 0, and finds v shifted right by that many bytes; after the
\* last pass v has been shifted by width bytes.
FixedBELoop(v, width) ==
    [out |-> [i \in 1..width |-> LowByteAfterShift(v, width - i)],
     v |-> ShiftRightBytes(v, width)]

uintToFixedBE(value, width, name) ==
    IF BigIsNegative(value) THEN Throw("Error", "cannot be negative", name, 0)
    ELSE IF width < 0 THEN Throw("RangeError", "Invalid typed array length", "", 0)
    ELSE LET r == FixedBELoop(value.mag, width)
         IN  IF r.v # <<>>
             THEN Throw("Error", "does not fit in width bytes", name, width)
             ELSE Ok(r.out)

\* A numeric id is a big integer [t |-> "bigint", neg, mag], a machine number
\* or a text.
BigIntIn(neg, mag) == [t |-> "bigint", neg |-> neg /\ mag # <<>>, mag |-> mag]

parseNumericId(id, name) ==
    IF id.t = "bigint" THEN Ok(Big(id.neg, id.mag))
    ELSE IF id.t = "number"
    THEN IF ~NumberIsFinite(id) \/ ~NumberIsInteger(id) \/ NumberIsNegative(id)
         THEN Throw("Error", "must be a non-negative integer", name, 0)
         ELSE Ok(BigIntOfNumber(id))
    ELSE LET s == Trim(id.s)
         IN  IF Len(s) = 0 THEN Throw("Error", "cannot be empty", name, 0)
             ELSE IF Has0xPrefix(s)
             THEN IF Len(Slice2(s)) = 0
                  THEN Throw("Error", "hex cannot be empty", name, 0)
                  ELSE LET v == BigIntOfText(s)
                       IN  IF ~v.ok THEN v
                           ELSE IF BigIsNegative(v.val)
                           THEN Throw("Error", "must be non-negative", name, 0)
                           ELSE v
             ELSE IF ~(\A i \in 1..Len(s) : IsDecDigit(s[i]))
             THEN Throw("Error", "must be numeric (decimal or 0x hex)", name, 0)
             ELSE LET v == BigIntOfText(s)
                  IN  IF ~v.ok THEN v
                      ELSE IF BigIsNegative(v.val)
                      THEN Throw("Error", "must be non-negative", name, 0)
                      ELSE v

encodeChainId(chainId, width) ==
    LET a == assertPositiveInt(width, "chainIdWidth")
    IN  IF ~a.ok THEN a
        ELSE LET v == parseNumericId(chainId, "chainId")
             IN  IF ~v.ok THEN v ELSE uintToFixedBE(v.val, width.v, "chainId")

\* The value encodeTimelock encodes, before the range check
timelockValue(timelock) ==
    IF timelock.t = "bigint" THEN Ok(Big(timelock.neg, timelock.mag))
    ELSE IF timelock.t = "number"
    THEN IF ~NumberIsFinite(timelock) \/ ~NumberIsInteger(timelock)
         THEN Throw("Error", "timelock must be an integer", "timelock", 0)
         ELSE IF NumberIsNegative(timelock)
         THEN Throw("Error", "cannot be negative", "timelock", 0)
         ELSE IF MagLess(MaxSafeIntegerMag, timelock.mag)
         THEN Throw("Error", "exceeds MAX_SAFE_INTEGER", "timelock", 0)
         ELSE Ok(BigIntOfNumber(timelock))
    ELSE parseNumericId(timelock, "timelock")

\* Fault: the 64-bit ceiling applied at every width
encodeTimelockCeilingAlways(timelock, width) ==
    LET a == assertPositiveInt(width, "timelockWidth")
    IN  IF ~a.ok THEN a
        ELSE LET v == timelockValue(timelock)
             IN  IF ~v.ok THEN v
                 ELSE IF BigLess(Uint64Max, v.val)
                 THEN Throw("Error", "exceeds uint64 maximum", "timelock", 0)
                 ELSE uintToFixedBE(v.val, width.v, "timelock")

encodeTimelock(timelock, width) ==
    LET a == assertPositiveInt(width, "timelockWidth")
    IN  IF ~a.ok THEN a
        ELSE LET v == timelockValue(timelock)
             IN  IF ~v.ok THEN v
                 ELSE IF width.v = 8 /\ BigLess(Uint64Max, v.val)
                 THEN Throw("Error", "exceeds uint64 maximum", "timelock", 0)
                 ELSE uintToFixedBE(v.val, width.v, "timelock")

-----------------------------------------------------------------------------
(* Derivation layer                                                        *)

\* "signature-key-initial" and "signature-key-timelock" as UTF-8 bytes
SignatureKeyPrefix == <<115, 105, 103, 110, 97, 116, 117, 114, 101, 45, 107, 101, 121, 45>>

INFO_INITIAL == SignatureKeyPrefix \o <<105, 110, 105, 116, 105, 97, 108>>

INFO_TIMELOCK == SignatureKeyPrefix \o <<116, 105, 109, 101, 108, 111, 99, 107>>

KEY_LENGTH == 32

CHAIN_ID_BYTES == 32

TIMELOCK_BYTES == 8

MIN_SIGNATURE_BYTES == 32

\* The block size of SHA-256, to which HMAC brings its key
HmacBlockBytes == 64

\* The longest output of HKDF-SHA256: 255 blocks of 32 bytes
HkdfMaxLength == 255 * 32

\* opts.k ?? d
OptGet(opts, k, d) == IF k \in DOMAIN opts THEN opts[k] ELSE d

\* The key of the extract step's HMAC: a salt no longer than the block is
\* padded on the right with zeros, a longer one is replaced by its hash.
HmacKey(salt) ==
    IF Len(salt) <= HmacBlockBytes
    THEN <<"block", salt \o Repeat(<<0>>, HmacBlockBytes - Len(salt))>>
    ELSE <<"hash", salt>>

\* What the output of HKDF depends on, the length apart
HkdfQuery(ikm, salt, info) == <<HmacKey(salt), ikm, info>>

\* Byte i of the output stream of the k-th distinct query
OkmByte(k, i) == (k + 31 * (i - 1)) % 256

\* hkdfSync("sha256", ikm, salt, info, keylen) against the table tbl of the
\* queries made so far: the result and the table after the call.
hkdfSync(tbl, ikm, salt, info, keylen) ==
    LET q == HkdfQuery(ikm, salt, info)
        known == \E i \in 1..Len(tbl) : tbl[i] = q
        k == IF known THEN CHOOSE i \in 1..Len(tbl) : tbl[i] = q ELSE Len(tbl) + 1
    IN  IF keylen > HkdfMaxLength
        THEN [res |-> Throw("RangeError", "Invalid key length", "", keylen), oracle |-> tbl]
        ELSE [res |-> Ok([i \in 1..keylen |-> OkmByte(k, i)]),
              oracle |-> IF known THEN tbl ELSE Append(tbl, q)]

\* A derivation that stopped at the failed step r, before any HKDF call
Stopped(r, tbl) == [res |-> r, oracle |-> tbl, hk |-> <<>>]

\* The derivation after its HKDF call h with the arguments a
Derived(h, a, keyLength) ==
    IF ~h.res.ok THEN [res |-> h.res, oracle |-> h.oracle, hk |-> <<a>>]
    ELSE LET x == assertExactLength(h.res.val, keyLength, "HKDF output")
         IN  [res |-> IF ~x.ok THEN x ELSE Ok(bytesToHex0x(h.res.val)),
              oracle |-> h.oracle, hk |-> <<a>>]

createInitialKeyFromSignature(tbl, signature, chainId, opts) ==
    LET sigBytes == toBytes(signature)
        keyLength == OptGet(opts, "outputLength", Int32(KEY_LENGTH))
        infoInitial == OptGet(opts, "infoInitialLabel", INFO_INITIAL)
        chainIdWidth == OptGet(opts, "chainIdWidth", Int32(CHAIN_ID_BYTES))
    IN  IF ~sigBytes.ok THEN Stopped(sigBytes, tbl)
        ELSE LET m == assertMinLength(sigBytes.val, MIN_SIGNATURE_BYTES, "signature")
                 a1 == assertPositiveInt(keyLength, "outputLength")
                 a2 == assertPositiveInt(chainIdWidth, "chainIdWidth")
                 chainIdBytes == encodeChainId(chainId, chainIdWidth)
             IN  IF ~m.ok THEN Stopped(m, tbl)
                 ELSE IF ~a1.ok THEN Stopped(a1, tbl)
                 ELSE IF ~a2.ok THEN Stopped(a2, tbl)
                 ELSE IF ~chainIdBytes.ok THEN Stopped(chainIdBytes, tbl)
                 ELSE Derived(hkdfSync(tbl, sigBytes.val, chainIdBytes.val,
                                       infoInitial, keyLength.v),
                              [ikm |-> sigBytes.val, salt |-> chainIdBytes.val,
                               info |-> infoInitial, len |-> keyLength.v],
                              keyLength.v)

\* Fault: the timelock is encoded before the length of the key is checked
deriveKeyTimelockFirst(tbl, initialKey, timelock, opts) ==
    LET keyBytes == toBytes(initialKey)
        keyLength == OptGet(opts, "outputLength", Int32(KEY_LENGTH))
        infoTimelock == OptGet(opts, "infoTimelockLabel", INFO_TIMELOCK)
        timelockWidth == OptGet(opts, "timelockWidth", Int32(TIMELOCK_BYTES))
    IN  IF ~keyBytes.ok THEN Stopped(keyBytes, tbl)
        ELSE LET a1 == assertPositiveInt(keyLength, "outputLength")
                 a2 == assertPositiveInt(timelockWidth, "timelockWidth")
                 x == assertExactLength(keyBytes.val, keyLength.v, "initialKey")
                 timelockBytes == encodeTimelock(timelock, timelockWidth)
             IN  IF ~a1.ok THEN Stopped(a1, tbl)
                 ELSE IF ~a2.ok THEN Stopped(a2, tbl)
                 ELSE IF ~timelockBytes.ok THEN Stopped(timelockBytes, tbl)
                 ELSE IF ~x.ok THEN Stopped(x, tbl)
                 ELSE Derived(hkdfSync(tbl, keyBytes.val, timelockBytes.val,
                                       infoTimelock, keyLength.v),
                              [ikm |-> keyBytes.val, salt |-> timelockBytes.val,
                               info |-> infoTimelock, len |-> keyLength.v],
                              keyLength.v)

deriveKeyFromInitialKeyAndTimelock(tbl, initialKey, timelock, opts) ==
    LET keyBytes == toBytes(initialKey)
        keyLength == OptGet(opts, "outputLength", Int32(KEY_LENGTH))
        infoTimelock == OptGet(opts, "infoTimelockLabel", INFO_TIMELOCK)
        timelockWidth == OptGet(opts, "timelockWidth", Int32(TIMELOCK_BYTES))
    IN  IF ~keyBytes.ok THEN Stopped(keyBytes, tbl)
        ELSE LET a1 == assertPositiveInt(keyLength, "outputLength")
                 a2 == assertPositiveInt(timelockWidth, "timelockWidth")
                 x == assertExactLength(keyBytes.val, keyLength.v, "initialKey")
                 timelockBytes == encodeTimelock(timelock, timelockWidth)
             IN  IF ~a1.ok THEN Stopped(a1, tbl)
                 ELSE IF ~a2.ok THEN Stopped(a2, tbl)
                 ELSE IF ~x.ok THEN Stopped(x, tbl)
                 ELSE IF ~timelockBytes.ok THEN Stopped(timelockBytes, tbl)
                 ELSE Derived(hkdfSync(tbl, keyBytes.val, timelockBytes.val,
                                       infoTimelock, keyLength.v),
                              [ikm |-> keyBytes.val, salt |-> timelockBytes.val,
                               info |-> infoTimelock, len |-> keyLength.v],
                              keyLength.v)

-----------------------------------------------------------------------------
(* Inputs                                                                  *)

\* The decimal and hex texts of a small natural number
RECURSIVE DigitsOf(_, _, _)
DigitsOf(n, base, alphabet) ==
    IF n < base THEN <<alphabet[n + 1]>>
    ELSE DigitsOf(n \div base, base, alphabet) \o <<alphabet[(n % base) + 1]>>

DecText(n) == DigitsOf(n, 10, DecDigits)

HexTextLower(n) == <<"0", "x">> \o DigitsOf(n, 16, LowerHex)

HexTextUpper(n) == <<"0", "X">> \o DigitsOf(n, 16, UpperHex)

\* The text of a list of digit values
TextOf(ds, alphabet) == [i \in 1..Len(ds) |-> alphabet[ds[i] + 1]]

\* The ways a caller writes the id n
TextsOf(n) ==
    { Str(DecText(n)),
      Str(<<" ", "0", "0">> \o DecText(n) \o <<"\t">>),
      Str(HexTextLower(n)),
      Str(<<" ">> \o HexTextUpper(n)) }

RepresentationsOf(n) ==
    TextsOf(n) \cup {Number("int", FALSE, NatMag(n)), BigIntIn(FALSE, NatMag(n))}

SmallIds == {0, 5, 255}

\* 2^53 = 9007199254740992, the first integer above Number.MAX_SAFE_INTEGER
Pow53Mag == <<32>> \o Repeat(<<0>>, 6)

Pow53Dec == TextOf(<<9, 0, 0, 7, 1, 9, 9, 2, 5, 4, 7, 4, 0, 9, 9, 2>>, DecDigits)

Pow53Hex == <<"0", "x", "2">> \o Repeat(<<"0">>, 13)

\* 2^64 - 1 = 18446744073709551615
Max64Mag == Repeat(<<255>>, 8)

Max64Dec == TextOf(<<1, 8, 4, 4, 6, 7, 4, 4, 0, 7, 3, 7, 0, 9, 5, 5, 1, 6, 1, 5>>, DecDigits)

Max64Hex == <<"0", "x">> \o Repeat(<<"F">>, 16)

\* 2^64 = 18446744073709551616
Pow64Mag == <<1>> \o Repeat(<<0>>, 8)

Pow64Dec == TextOf(<<1, 8, 4, 4, 6, 7, 4, 4, 0, 7, 3, 7, 0, 9, 5, 5, 1, 6, 1, 6>>, DecDigits)

Pow64Hex == <<"0", "x", "1">> \o Repeat(<<"0">>, 16)

LargeIds ==
    { Str(Pow53Dec), Str(Pow53Hex), BigIntIn(FALSE, Pow53Mag), Number("int", FALSE, Pow53Mag),
      Str(Max64Dec), Str(Max64Hex), Str(Pow64Dec), BigIntIn(FALSE, Pow64Mag) }

BadIds ==
    { Str(<<" ">>), Str(<<"0", "x">>), Str(<<"0", "x", "g", "1">>),
      Str(<<"s", "o", "l", ":", "m">>), Str(<<"-", "5">>),
      Number("frac", FALSE, <<1>>), Number("nan", FALSE, <<>>),
      Number("int", TRUE, <<100>>), BigIntIn(TRUE, <<100>>) }

NumericIds == UNION {RepresentationsOf(n) : n \in SmallIds} \cup LargeIds \cup BadIds

\* Byte inputs: n bytes 0xaa as raw bytes and as hex text
RawAA(n) == Bin(Repeat(<<170>>, n))

HexAA(n) == Str(<<"0", "x">> \o Repeat(<<"a", "a">>, n))

Signatures ==
    { HexAA(MIN_SIGNATURE_BYTES), RawAA(MIN_SIGNATURE_BYTES),
      Str(<<" ">> \o Repeat(<<"A", "a">>, MIN_SIGNATURE_BYTES)),
      HexAA(MIN_SIGNATURE_BYTES - 1), RawAA(MIN_SIGNATURE_BYTES - 1),
      HexAA(2 * MIN_SIGNATURE_BYTES + 1),
      Str(<<"0", "x">>), Str(<<"0", "x", "a", "a", "a">>),
      Str(<<"0", "x", "G", "G", "G", "G">>) }

InitialKeys ==
    { HexAA(KEY_LENGTH), RawAA(KEY_LENGTH), HexAA(KEY_LENGTH - 1), HexAA(KEY_LENGTH + 1),
      HexAA(16), Str(<<"0", "x", "G", "G">>) }

\* A caller's label, used for either stage
CustomLabel == <<108, 97, 98, 101, 108>>

Options ==
    { <<>>,
      [chainIdWidth |-> Int32(8)],
      [timelockWidth |-> Int32(4)],
      [outputLength |-> Int32(16)],
      [chainIdWidth |-> Int32(8), infoInitialLabel |-> INFO_TIMELOCK],
      [chainIdWidth |-> Int32(8), infoInitialLabel |-> CustomLabel,
       infoTimelockLabel |-> INFO_INITIAL],
      [outputLength |-> Int32(0)],
      [chainIdWidth |-> Frac(1), timelockWidth |-> Int32(0)],
      [chainIdWidth |-> Int32(9), timelockWidth |-> Int32(9)],
      [chainIdWidth |-> Int32(HmacBlockBytes), timelockWidth |-> Int32(HmacBlockBytes + 1)] }

\* The reference calls a session compares its other calls with, in the order
\* a session makes them
RefOrder ==
    << <<"create", Str(<<"0">>), <<>>>>,
      <<"create", Str(<<"5">>), <<>>>>,
      <<"create", Str(<<"5">>), [outputLength |-> Int32(16)]>>,
      <<"derive", Str(<<"0">>), <<>>>>,
      <<"derive", Str(<<"5">>), <<>>>>,
      <<"derive", Str(<<"5">>), [chainIdWidth |-> Int32(8), infoInitialLabel |-> INFO_TIMELOCK]>>,
      <<"derive", Str(Pow53Dec), <<>>>> >>

RefCalls == Range(RefOrder)

RefRank(c) == CHOOSE k \in 1..Len(RefOrder) : RefOrder[k] = <<c.op, c.id, c.opts>>

\* The secret of the reference calls, a signature and an initial key alike
RefSecret == HexAA(KEY_LENGTH)

IsRef(c) == c.secret = RefSecret /\ <<c.op, c.id, c.opts>> \in RefCalls

-----------------------------------------------------------------------------
(* Sessions: a caller makes up to MaxCalls derivation calls against the    *)
(* same HKDF.  Each call is recorded with its arguments, the arguments of  *)
(* the HKDF call it made (none when it stopped before) and its result.     *)
(* The first call takes any secret; a session goes on after reference      *)
(* calls only, made in their order, with the reference secret or a key it  *)
(* has been returned.                                                      *)

MaxCalls == 2

CanCall ==
    /\ Len(calls) < MaxCalls
    /\ \A i \in 1..Len(calls) : IsRef(calls[i])
    /\ \A i, j \in 1..Len(calls) : i < j => RefRank(calls[i]) < RefRank(calls[j])

Call(op, secret, id, opts, r) ==
    [op |-> op, secret |-> secret, id |-> id, opts |-> opts, hk |-> r.hk, res |-> r.res]

\* The keys earlier calls of the session returned
ReturnedKeys == {Str(calls[i].res.val) : i \in {j \in 1..Len(calls) : calls[j].res.ok}}

\* The secrets among S open to the next call
Offered(S) == IF calls = <<>> THEN S ELSE S \cap {RefSecret}

Idle == <<>>

CreateInitialKey ==
    /\ CanCall
    /\ \E signature \in Offered(Signatures), chainId \in NumericIds, opts \in Options :
          LET r == createInitialKeyFromSignature(oracle, signature, chainId, opts)
          IN  /\ calls' = Append(calls, Call("create", signature, chainId, opts, r))
              /\ oracle' = r.oracle
    /\ UNCHANGED <<pc, arg, ret, shell>>

DeriveKey ==
    /\ CanCall
    /\ \E initialKey \in Offered(InitialKeys) \cup ReturnedKeys, timelock \in NumericIds,
          opts \in Options :
          LET r == deriveKeyFromInitialKeyAndTimelock(oracle, initialKey, timelock, opts)
          IN  /\ calls' = Append(calls, Call("derive", initialKey, timelock, opts, r))
              /\ oracle' = r.oracle
    /\ UNCHANGED <<pc, arg, ret, shell>>

Init ==
    /\ calls = <<>>
    /\ oracle = <<>>
    /\ pc = "session"
    /\ arg = Idle
    /\ ret = Idle
    /\ shell = Idle

Next == CreateInitialKey \/ DeriveKey

Spec == Init /\ [][Next]_vars

-----------------------------------------------------------------------------
(* Single calls of the encoding layer: the argument is drawn at the start  *)
(* and the function is applied to it once.                                 *)

MaxTextLen == 4

MaxWidth == 3

MaxSmall == 300

TextAlphabet == {"0", "x", "X", "a", "F", "g", " "}

Texts == UNION {[1..n -> TextAlphabet] : n \in 0..MaxTextLen}

RECURSIVE Pow256(_)
Pow256(k) == IF k = 0 THEN 1 ELSE 256 * Pow256(k - 1)

\* Small integers, and the integers around 256, 256^2 and 256^3
Integers256 ==
    (-2..MaxSmall) \cup UNION {{Pow256(k) - 1, Pow256(k), Pow256(k) + 1} : k \in 1..3}

\* The big integer n
BigOfInt(n) == IF n < 0 THEN Big(TRUE, NatMag(-n)) ELSE Big(FALSE, NatMag(n))

EncArgs ==
    { [fn |-> "hexToBytesStrict", input |-> t] : t \in Texts }
    \cup
    { [fn |-> "uintToFixedBE", n |-> n, value |-> BigOfInt(n), width |-> w] :
          n \in Integers256, w \in 1..MaxWidth }
    \cup
    { [fn |-> "parseNumericId", id |-> id] : id \in NumericIds }

Return(r) ==
    /\ ret' = r
    /\ pc' = "done"
    /\ UNCHANGED <<calls, oracle, arg, shell>>

HexToBytesStrict ==
    /\ pc = "call" /\ arg.fn = "hexToBytesStrict"
    /\ Return(hexToBytesStrict(arg.input))

UintToFixedBE ==
    /\ pc = "call" /\ arg.fn = "uintToFixedBE"
    /\ Return(uintToFixedBE(arg.value, arg.width, "value"))

ParseNumericId ==
    /\ pc = "call" /\ arg.fn = "parseNumericId"
    /\ Return(parseNumericId(arg.id, "id"))

EncInit ==
    /\ calls = <<>>
    /\ oracle = <<>>
    /\ shell = Idle
    /\ pc = "call"
    /\ arg \in EncArgs
    /\ ret = Idle

EncNext == HexToBytesStrict \/ UintToFixedBE \/ ParseNumericId

EncSpec == EncInit /\ [][EncNext]_vars

-----------------------------------------------------------------------------
(* The interactive shell: main() of cli.ts.  Every answer is trimmed by    *)
(* askQuestion.  The shell asks for the signature and the chain id,        *)
(* derives the initial key, then shows the menu until the user exits.      *)

SignatureAnswers ==
    { HexAA(32).s, <<" ">> \o HexAA(32).s, HexAA(31).s, <<"0", "x">>,
      <<"0", "x", "G", "G">> }

ChainIdAnswers == { <<"1">>, <<"0", "x", "1", " ">>, <<"s", "o", "l">>, <<>> }

ChoiceAnswers == { <<"1">>, <<"2">>, <<" ", "2">>, <<"3">>, <<>> }

TimelockAnswers ==
    { <<"5">>, <<"0", "x", "f", "f">>, <<"-", "5">>, <<"a", "b", "c">>, Pow64Dec }

ShellStart ==
    [ pc |-> "askSignature", signatureHex |-> <<>>, chainIdInput |-> <<>>,
      initialKey |-> <<>>, choice |-> <<>>, tInput |-> <<>>, keyUsed |-> <<>>,
      out |-> "Notes", menuShown |-> FALSE, exited |-> FALSE, exitCode |-> 0 ]

\* const signatureHex = await askQuestion(...)
ShellAskSignature ==
    /\ shell.pc = "askSignature"
    /\ \E answer \in SignatureAnswers :
          shell' = [shell EXCEPT !.signatureHex = Trim(answer), !.pc = "askChainId"]
    /\ UNCHANGED <<calls, oracle, pc, arg, ret>>

\* const chainIdInput = await askQuestion(...), then the initial derivation:
\* its key is printed and the menu shown, or its error is printed and the
\* process exits with code 1
ShellCreateInitialKey ==
    /\ shell.pc = "askChainId"
    /\ \E answer \in ChainIdAnswers :
          LET r == createInitialKeyFromSignature(oracle, Str(shell.signatureHex),
                                                 Str(Trim(answer)), <<>>)
          IN  /\ oracle' = r.oracle
              /\ shell' = IF r.res.ok
                          THEN [shell EXCEPT !.chainIdInput = Trim(answer),
                                             !.initialKey = r.res.val,
                                             !.out = "Initial key",
                                             !.menuShown = TRUE, !.pc = "menu"]
                          ELSE [shell EXCEPT !.chainIdInput = Trim(answer),
                                             !.out = "Error",
                                             !.exited = TRUE, !.exitCode = 1,
                                             !.pc = "exited"]
    /\ UNCHANGED <<calls, pc, arg, ret>>

\* const choice = await askQuestion(...): "2" leaves the loop and main
\* returns, "1" asks for a timelock, anything else shows the menu again
ShellChoose ==
    /\ shell.pc = "menu"
    /\ \E answer \in ChoiceAnswers :
          shell' = IF Trim(answer) = <<"2">>
                   THEN [shell EXCEPT !.choice = Trim(answer), !.out = "Done",
                                      !.exited = TRUE, !.pc = "exited"]
                   ELSE IF Trim(answer) = <<"1">>
                   THEN [shell EXCEPT !.choice = Trim(answer), !.pc = "askTimelock"]
                   ELSE [shell EXCEPT !.choice = Trim(answer), !.out = "Invalid choice"]
    /\ UNCHANGED <<calls, oracle, pc, arg, ret>>

\* Fault: the child derivation without a try of its own, so that its error
\* reaches the handler of the initial derivation
ShellDeriveKeyUncaught ==
    /\ shell.pc = "askTimelock"
    /\ \E answer \in TimelockAnswers :
          LET r == deriveKeyFromInitialKeyAndTimelock(oracle, Str(shell.initialKey),
                                                      Str(Trim(answer)), <<>>)
          IN  /\ oracle' = r.oracle
              /\ shell' = IF r.res.ok
                          THEN [shell EXCEPT !.tInput = Trim(answer),
                                             !.keyUsed = shell.initialKey,
                                             !.out = "Derived key", !.pc = "menu"]
                          ELSE [shell EXCEPT !.tInput = Trim(answer),
                                             !.keyUsed = shell.initialKey,
                                             !.out = "Error",
                                             !.exited = TRUE, !.exitCode = 1,
                                             !.pc = "exited"]
    /\ UNCHANGED <<calls, pc, arg, ret>>

\* const tInput = await askQuestion(...), then the child derivation inside
\* its own try: the key or the error is printed and the menu shown again
ShellDeriveKey ==
    /\ shell.pc = "askTimelock"
    /\ \E answer \in TimelockAnswers :
          LET r == deriveKeyFromInitialKeyAndTimelock(oracle, Str(shell.initialKey),
                                                      Str(Trim(answer)), <<>>)
          IN  /\ oracle' = r.oracle
              /\ shell' = [shell EXCEPT !.tInput = Trim(answer),
                                        !.keyUsed = shell.initialKey,
                                        !.out = IF r.res.ok THEN "Derived key"
                                                ELSE "Error deriving key",
                                        !.pc = "menu"]
    /\ UNCHANGED <<calls, pc, arg, ret>>

ShellInit ==
    /\ calls = <<>>
    /\ oracle = <<>>
    /\ pc = "shell"
    /\ arg = Idle
    /\ ret = Idle
    /\ shell = ShellStart

ShellNext == ShellAskSignature \/ ShellCreateInitialKey \/ ShellChoose \/ ShellDeriveKey

ShellSpec == ShellInit /\ [][ShellNext]_vars

-----------------------------------------------------------------------------
(* What the properties speak of                                            *)

\* The call just made
Made == IF calls = <<>> THEN {} ELSE {Last(calls)}

\* The pairs of calls of the session the call just made is part of; the other
\* pairs are the pairs of the states before
CallPairs ==
    {<<calls[i], Last(calls)>> : i \in 1..Len(calls)}
    \cup {<<Last(calls), calls[i]>> : i \in 1..Len(calls)}

\* The width a call encodes its id with
WidthOf(c) ==
    IF c.op = "create" THEN OptGet(c.opts, "chainIdWidth", Int32(CHAIN_ID_BYTES))
    ELSE OptGet(c.opts, "timelockWidth", Int32(TIMELOCK_BYTES))

\* The integers of the inputs, each with the ways the inputs write it
IdGroups ==
    { [mag |-> NatMag(n), reps |-> RepresentationsOf(n)] : n \in SmallIds }
    \cup
    { [mag |-> Pow53Mag,
       reps |-> {Str(Pow53Dec), Str(Pow53Hex), BigIntIn(FALSE, Pow53Mag),
                 Number("int", FALSE, Pow53Mag)}],
      [mag |-> Max64Mag, reps |-> {Str(Max64Dec), Str(Max64Hex)}],
      [mag |-> Pow64Mag, reps |-> {Str(Pow64Dec), BigIntIn(FALSE, Pow64Mag)}] }

HasValue(id) == \E g \in IdGroups : id \in g.reps

ValueOf(id) == (CHOOSE g \in IdGroups : id \in g.reps).mag

\* v < 256^w: the value has at most w base-256 digits
Fits(mag, w) == w.cls = "int" /\ w.v > 0 /\ Len(mag) <= w.v

\* Two calls of one operation that differ at most in how they write one id,
\* an id that fits the width
SameIdWritten(a, b) ==
    /\ a.op = b.op /\ a.secret = b.secret /\ a.opts = b.opts
    /\ HasValue(a.id) /\ HasValue(b.id) /\ ValueOf(a.id) = ValueOf(b.id)
    /\ Fits(ValueOf(a.id), WidthOf(a))

\* The id is parsed to its value, and the two calls cannot be told apart
SameOutcome(a, b) ==
    /\ a.res = b.res
    /\ a.hk = b.hk
    /\ a.hk # <<>> => StripZeros(a.hk[1].salt) = ValueOf(a.id)

UnsafeNumber(id) == id.t = "number" /\ id.cls = "int" /\ MagLess(MaxSafeIntegerMag, id.mag)

-----------------------------------------------------------------------------
(* C1, as claimed: every way of writing an id that fits the width (decimal *)
(* text, 0x hex text, machine integer, big integer) is parsed to the same  *)
(* value and gives the identical salt and output, for chainId and timelock *)
C1_AllFormatsEquivalent ==
    \A p \in CallPairs : SameIdWritten(p[1], p[2]) => SameOutcome(p[1], p[2])

(* C1, amended: the same, except that a timelock given as a machine        *)
(* integer above Number.MAX_SAFE_INTEGER is rejected                       *)
C1_FormatsEquivalent ==
    \A p \in CallPairs :
        /\ SameIdWritten(p[1], p[2])
        /\ ~(p[1].op = "derive" /\ (UnsafeNumber(p[1].id) \/ UnsafeNumber(p[2].id)))
        => SameOutcome(p[1], p[2])

\* A timelock written as decimal text and as a machine integer gave one key
C1_Witness ==
    \E p \in CallPairs :
        /\ SameIdWritten(p[1], p[2])
        /\ p[1].op = "derive" /\ p[1].id.t = "string" /\ p[2].id.t = "number"
        /\ p[1].res.ok /\ p[2].res.ok

-----------------------------------------------------------------------------
\* Two calls of one operation on the same secret bytes and with the same
\* options that returned keys for two different ids, both fitting the width
DifferentIds(a, b) ==
    /\ a.op = b.op /\ a.opts = b.opts
    /\ a.res.ok /\ b.res.ok /\ a.hk[1].ikm = b.hk[1].ikm
    /\ HasValue(a.id) /\ HasValue(b.id) /\ ValueOf(a.id) # ValueOf(b.id)
    /\ Fits(ValueOf(a.id), WidthOf(a)) /\ Fits(ValueOf(b.id), WidthOf(b))

(* C2: with the same options and the same secret, two numerically          *)
(* different ids that fit the width are encoded to different salts of the  *)
(* same length and the two calls return different keys                     *)
C2_Separation ==
    \A p \in CallPairs :
        DifferentIds(p[1], p[2]) =>
            /\ Len(p[1].hk[1].salt) = Len(p[2].hk[1].salt)
            /\ p[1].hk[1].salt # p[2].hk[1].salt
            /\ p[1].res.val # p[2].res.val

\* Chain ids 5 and 255 on one signature, and timelocks 5 and 2^53 on one key
C2_Witness ==
    /\ \E p \in CallPairs : DifferentIds(p[1], p[2]) /\ p[1].op = "derive"
                            /\ ValueOf(p[2].id) = Pow53Mag

-----------------------------------------------------------------------------
OutputLengthOf(c) == OptGet(c.opts, "outputLength", Int32(KEY_LENGTH))

DefaultWidthOf(c) == IF c.op = "create" THEN CHAIN_ID_BYTES ELSE TIMELOCK_BYTES

\* The options of the two calls agree on everything but the width of the id
SameButWidth(a, b) ==
    /\ OutputLengthOf(a) = OutputLengthOf(b)
    /\ OptGet(a.opts, "infoInitialLabel", INFO_INITIAL)
         = OptGet(b.opts, "infoInitialLabel", INFO_INITIAL)
    /\ OptGet(a.opts, "infoTimelockLabel", INFO_TIMELOCK)
         = OptGet(b.opts, "infoTimelockLabel", INFO_TIMELOCK)

\* Two calls of one operation on the same secret bytes returned keys for the
\* same id, the first with the default width, the second with another width
WidthChanged(a, b) ==
    /\ a.op = b.op /\ SameButWidth(a, b)
    /\ a.res.ok /\ b.res.ok /\ a.hk[1].ikm = b.hk[1].ikm
    /\ HasValue(a.id) /\ HasValue(b.id) /\ ValueOf(a.id) = ValueOf(b.id)
    /\ WidthOf(a).v = DefaultWidthOf(a) /\ WidthOf(b).v # DefaultWidthOf(b)

\* The same call made twice
Repeated(a, b) == a.op = b.op /\ a.secret = b.secret /\ a.id = b.id /\ a.opts = b.opts

(* C3: a width other than the default gives, for every id representable in *)
(* both widths (0 included), a key different from the default width's key; *)
(* a call repeated with the same width returns the identical key           *)
C3_WidthSensitivity ==
    \A p \in CallPairs :
        /\ WidthChanged(p[1], p[2]) => p[1].res.val # p[2].res.val
        /\ Repeated(p[1], p[2]) => p[1].res = p[2].res

\* For the id 5 the width does change the key
C3_NonZeroWitness ==
    \E p \in CallPairs :
        /\ WidthChanged(p[1], p[2]) /\ ValueOf(p[1].id) = <<5>>
        /\ p[1].res.val # p[2].res.val

-----------------------------------------------------------------------------
\* An initial derivation and a child derivation, made with the same options
\* record, that gave HKDF the same secret, the same salt and the same length
SameHkdfInputs(a, b) ==
    /\ a.op = "create" /\ b.op = "derive" /\ a.opts = b.opts
    /\ a.res.ok /\ b.res.ok
    /\ a.hk[1].ikm = b.hk[1].ikm /\ a.hk[1].salt = b.hk[1].salt
    /\ a.hk[1].len = b.hk[1].len

(* C4: for every options record both operations accept, the child          *)
(* derivation passes HKDF an info label different from the initial         *)
(* derivation's, so on the same secret, salt and length their keys differ  *)
C4_DomainSeparation ==
    \A p \in CallPairs :
        /\ (p[1].op = "create" /\ p[2].op = "derive" /\ p[1].opts = p[2].opts
            /\ p[1].hk # <<>> /\ p[2].hk # <<>>)
           => p[1].hk[1].info # p[2].hk[1].info
        /\ SameHkdfInputs(p[1], p[2]) => p[1].res.val # p[2].res.val

-----------------------------------------------------------------------------
\* "0x" and then 2n lowercase hex digits
IsKeyText(t, n) ==
    /\ Len(t) = 2 * n + 2
    /\ SubSeq(t, 1, 2) = <<"0", "x">>
    /\ \A i \in 3..Len(t) : t[i] \in Range(LowerHex)

(* C5: every key either derivation returns is "0x" followed by exactly     *)
(* 2 * outputLength lowercase hex digits and decodes to exactly            *)
(* outputLength bytes, the first outputLength bytes of its HKDF query      *)
C5_OutputFormat ==
    \A c \in Made :
        LET n == OutputLengthOf(c)
            d == hexToBytesStrict(c.res.val)
        IN  c.res.ok =>
                /\ n.cls = "int" /\ n.v > 0
                /\ IsKeyText(c.res.val, n.v)
                /\ d.ok /\ Len(d.val) = n.v
                /\ d.val = [k \in 1..n.v |-> OkmByte(CHOOSE q \in 1..Len(oracle) :
                                oracle[q] = HkdfQuery(c.hk[1].ikm, c.hk[1].salt, c.hk[1].info), k)]

\* Keys of 32 and of 16 bytes were returned, by an initial and a child derivation
C5_Witness ==
    /\ Len(calls) = 2
    /\ calls[1].op = "create" /\ calls[1].res.ok /\ OutputLengthOf(calls[1]).v = 16
    /\ calls[2].op = "derive" /\ calls[2].res.ok /\ OutputLengthOf(calls[2]).v = 16

-----------------------------------------------------------------------------
\* The call failed with the wrong-key-length error
WrongKeyLength(c) ==
    /\ ~c.res.ok /\ c.hk = <<>>
    /\ c.res.err.msg = "must be exactly len bytes" /\ c.res.err.field = "initialKey"

\* outputLength and timelockWidth are positive integers
ChildOptionsValid(c) ==
    /\ assertPositiveInt(OutputLengthOf(c), "outputLength").ok
    /\ assertPositiveInt(WidthOf(c), "timelockWidth").ok

\* The initial key of the call is coerced to n bytes, n other than the
\* positive integer outputLength
KeyLengthDiffers(c) ==
    /\ c.op = "derive" /\ toBytes(c.secret).ok
    /\ assertPositiveInt(OutputLengthOf(c), "outputLength").ok
    /\ Len(toBytes(c.secret).val) # OutputLengthOf(c).v

\* The child derivation b was given the key the initial derivation a returned
KeyHandedOn(a, b) ==
    a.op = "create" /\ a.res.ok /\ b.op = "derive" /\ b.secret = Str(a.res.val)

(* C6, as claimed: the child derivation fails with the wrong-key-length    *)
(* error whenever the coerced initial key is not outputLength bytes long   *)
C6_LengthGateAlways ==
    \A c \in Made : KeyLengthDiffers(c) => WrongKeyLength(c)

(* C6, amended: when timelockWidth is a positive integer as well, the      *)
(* child derivation fails with the wrong-key-length error whenever the     *)
(* coerced initial key is not outputLength bytes long, and otherwise hands *)
(* HKDF the coerced bytes unchanged; a key returned by the initial         *)
(* derivation is accepted exactly when both calls use one outputLength     *)
C6_LengthGate ==
    /\ \A c \in Made :
          /\ (KeyLengthDiffers(c) /\ ChildOptionsValid(c)) => WrongKeyLength(c)
          /\ (c.op = "derive" /\ c.hk # <<>>) =>
                 /\ c.hk[1].ikm = toBytes(c.secret).val
                 /\ Len(c.hk[1].ikm) = OutputLengthOf(c).v
    /\ \A p \in CallPairs :
          (KeyHandedOn(p[1], p[2]) /\ ChildOptionsValid(p[2])) =>
              (WrongKeyLength(p[2]) <=> OutputLengthOf(p[1]) # OutputLengthOf(p[2]))

\* A 16-byte key handed on to a child derivation that expects 32 bytes, and
\* a key one byte too long: both rejected
C6_Witness ==
    /\ \E p \in CallPairs :
          /\ KeyHandedOn(p[1], p[2]) /\ ChildOptionsValid(p[2])
          /\ OutputLengthOf(p[1]).v = 16 /\ OutputLengthOf(p[2]).v = 32
          /\ WrongKeyLength(p[2])

\* A 16-byte key handed on to a child derivation that expects 16 bytes: accepted
C6_AcceptedWitness ==
    \E p \in CallPairs :
        /\ KeyHandedOn(p[1], p[2]) /\ OutputLengthOf(p[1]).v = 16
        /\ OutputLengthOf(p[2]).v = 16 /\ p[2].res.ok

-----------------------------------------------------------------------------
\* The call failed with the signature-too-short error
SignatureTooShort(c) ==
    /\ ~c.res.ok /\ c.hk = <<>>
    /\ c.res.err.msg = "must be at least min bytes" /\ c.res.err.field = "signature"

(* C7: the initial derivation fails with the signature-too-short error     *)
(* exactly when the signature, coerced to bytes, has fewer than 32 bytes,  *)
(* as hex text or as raw bytes, whatever the options; longer signatures    *)
(* pass                                                                    *)
C7_SignatureFloor ==
    \A c \in Made :
        (c.op = "create" /\ toBytes(c.secret).ok) =>
            (SignatureTooShort(c) <=> Len(toBytes(c.secret).val) < 32)

\* A raw 31-byte signature rejected although outputLength is not valid
C7_Witness ==
    \E c \in Made :
        /\ c.op = "create" /\ c.secret = RawAA(31)
        /\ c.opts = [outputLength |-> Int32(0)] /\ SignatureTooShort(c)

\* A 65-byte signature accepted
C7_LongWitness ==
    \E c \in Made : c.op = "create" /\ c.secret = HexAA(65) /\ c.res.ok

\* The value of one hex digit, upper or lower case; -1 for any other character
Nibble(c) ==
    CASE c = "0" -> 0 [] c = "1" -> 1 [] c = "2" -> 2 [] c = "3" -> 3
      [] c = "4" -> 4 [] c = "5" -> 5 [] c = "6" -> 6 [] c = "7" -> 7
      [] c = "8" -> 8 [] c = "9" -> 9
      [] c \in {"a", "A"} -> 10 [] c \in {"b", "B"} -> 11
      [] c \in {"c", "C"} -> 12 [] c \in {"d", "D"} -> 13
      [] c \in {"e", "E"} -> 14 [] c \in {"f", "F"} -> 15
      [] OTHER -> -1

\* What the strict hex decoder owes for the digits d left after the prefix
StrictOutcome(r, d) ==
    IF d = <<>>
    THEN ~r.ok /\ r.err.msg = "Hex string cannot be empty"
    ELSE IF Len(d) % 2 = 1
    THEN ~r.ok /\ r.err.msg = "Hex string must have even length" /\ r.err.got = Len(d)
    ELSE IF \E i \in 1..Len(d) : Nibble(d[i]) = -1
    THEN ~r.ok /\ r.err.msg = "Invalid hex string"
    ELSE /\ r.ok
         /\ Len(r.val) = Len(d) \div 2
         /\ \A i \in 1..Len(r.val) :
               r.val[i] = 16 * Nibble(d[2 * i - 1]) + Nibble(d[2 * i])

\* The text without one leading 0x or 0X
Unprefixed(t) ==
    IF Len(t) >= 2 /\ t[1] = "0" /\ t[2] \in {"x", "X"}
    THEN [i \in 1..(Len(t) - 2) |-> t[i + 2]]
    ELSE t

HexCallDone == pc = "done" /\ arg.fn = "hexToBytesStrict"

(* C8, as stated: for every text, with d the text less one leading 0x or   *)
(* 0X, hexToBytesStrict fails with the empty-hex error when d is empty,    *)
(* with the even-length error when d has an odd number of characters, with *)
(* the invalid-hex error when d has a character that is no hex digit, and  *)
(* otherwise returns the Len(d)/2 bytes whose i-th byte is the value of    *)
(* the i-th pair of digits of d.                                           *)
C8_StrictHexUntrimmed ==
    HexCallDone => StrictOutcome(ret, Unprefixed(arg.input))

(* C8, amended: the same, with d taken from the text after the white space *)
(* around it has been removed.                                             *)
C8_StrictHex ==
    HexCallDone => StrictOutcome(ret, Unprefixed(Trim(arg.input)))

\* An upper-case prefix and mixed-case digits decoded to a byte
C8_Witness ==
    /\ HexCallDone
    /\ arg.input = <<"0", "X", "a", "F">>
    /\ ret.ok /\ ret.val = <<175>>

\* An odd number of digits refused
C8_OddWitness ==
    /\ HexCallDone
    /\ arg.input = <<"0", "x", "a">>
    /\ ~ret.ok

\* The number the bytes b denote, most significant byte first
RECURSIVE BytesToNat(_)
BytesToNat(b) == IF b = <<>> THEN 0 ELSE 256 * BytesToNat(Front(b)) + Last(b)

UintCallDone == pc = "done" /\ arg.fn = "uintToFixedBE"

\* n >= 256^w, for n >= 0 and w >= 1
AtLeastPow256(n, w) == n \div Pow256(w - 1) >= 256

(* C10: for every big integer v and positive width w, uintToFixedBE fails  *)
(* with the negative-value error when v < 0, with the overflow error       *)
(* exactly when v >= 256^w, and otherwise returns exactly w bytes b with   *)
(* the sum of b[i] * 256^(w-1-i) equal to v.                               *)
C10_FixedWidthBigEndian ==
    UintCallDone =>
        IF arg.n < 0
        THEN ~ret.ok /\ ret.err.msg = "cannot be negative"
        ELSE IF AtLeastPow256(arg.n, arg.width)
        THEN ~ret.ok /\ ret.err.msg = "does not fit in width bytes" /\ ret.err.got = arg.width
        ELSE /\ ret.ok
             /\ Len(ret.val) = arg.width
             /\ \A i \in 1..Len(ret.val) : ret.val[i] \in 0..255
             /\ BytesToNat(ret.val) = arg.n

\* 257 written on three bytes
C10_Witness ==
    /\ UintCallDone
    /\ arg.n = 257 /\ arg.width = 3
    /\ ret.ok /\ ret.val = <<0, 1, 1>>

\* 256^2 refused on two bytes, 256^2 - 1 written on them
C10_OverflowWitness ==
    /\ UintCallDone
    /\ arg.width = 2
    /\ \/ arg.n = 65536 /\ ~ret.ok
       \/ arg.n = 65535 /\ ret.ok

\* One step of the shell: the failed initial derivation ends the process
\* with code 1 and no menu; a child derivation, failed or not, goes back to
\* the menu on the key the initial derivation returned, with the process
\* running and its exit code as it was; the initial key never changes
\* once the menu is shown
ShellStep ==
    /\ (shell.pc = "askChainId" /\ shell'.exited) =>
           /\ shell'.exitCode # 0
           /\ ~shell'.menuShown
           /\ shell'.out = "Error"
    /\ shell.pc = "askTimelock" =>
           /\ shell'.pc = "menu"
           /\ ~shell'.exited
           /\ shell'.exitCode = shell.exitCode
           /\ shell'.keyUsed = shell.initialKey
           /\ shell'.out \in {"Derived key", "Error deriving key"}
           /\ (shell'.out = "Derived key") <=>
                 deriveKeyFromInitialKeyAndTimelock(oracle, Str(shell.initialKey),
                                                    Str(shell'.tInput), <<>>).res.ok
    /\ shell.menuShown => shell'.initialKey = shell.initialKey

\* A state of the shell: a non-zero exit code only without any menu shown,
\* a successful end only after the choice of exit
ShellState ==
    /\ shell.exitCode # 0 => shell.exited /\ ~shell.menuShown
    /\ (shell.exited /\ shell.exitCode = 0) =>
           shell.menuShown /\ shell.choice = <<"2">> /\ shell.out = "Done"
    /\ shell.keyUsed # <<>> => shell.keyUsed = shell.initialKey

(* C9: in the shell, a failed initial derivation ends the process with a   *)
(* non-zero exit code before any menu is shown; in the loop a failed child *)
(* derivation is caught and reported, the shell returns to the menu, and   *)
(* the process neither ends nor changes its exit code; the process ends    *)
(* with success only after the user chooses exit; every child derivation   *)
(* uses the one initial key.                                               *)
C9_ShellFailureHandling == []ShellState /\ [][ShellStep]_vars

\* A child derivation failed and the shell is back at the menu, running
C9_Witness ==
    /\ shell.pc = "menu"
    /\ shell.out = "Error deriving key"
    /\ ~shell.exited /\ shell.exitCode = 0
    /\ shell.keyUsed = shell.initialKey /\ shell.initialKey # <<>>

\* The initial derivation failed and the process ended with code 1
C9_ExitWitness ==
    /\ shell.pc = "exited"
    /\ shell.exitCode = 1 /\ ~shell.menuShown

-----------------------------------------------------------------------------
ParseCallDone == pc = "done" /\ arg.fn = "parseNumericId"

(* C11: for every id, a big integer, a machine integer or a text,          *)
(* parseNumericId fails or returns an integer >= 0; a negative big integer *)
(* is rejected by parseNumericId itself.                                   *)
C11_NeverNegative ==
    ParseCallDone => (ret.ok => ~BigIsNegative(ret.val))

\* A negative machine integer and the text -5 are rejected
C11_RejectedWitness ==
    /\ ParseCallDone /\ ~ret.ok
    /\ arg.id \in {Number("int", TRUE, <<100>>), Str(<<"-", "5">>)}

-----------------------------------------------------------------------------
\* A child derivation on a key of the right length, with valid options, for
\* a timelock that is one of the non-negative integers of the inputs
ValidChildCall(c) ==
    /\ c.op = "derive" /\ toBytes(c.secret).ok
    /\ ChildOptionsValid(c)
    /\ Len(toBytes(c.secret).val) = OutputLengthOf(c).v
    /\ HasValue(c.id)

FailsWith(c, msg) == ~c.res.ok /\ c.hk = <<>> /\ c.res.err.msg = msg

AboveUint64(c) == MagLess(Max64Mag, ValueOf(c.id))

(* C12, as claimed: the timelock value is held to 2^64 - 1 only when       *)
(* timelockWidth is 8, where larger values are rejected; with every other  *)
(* timelockWidth the child derivation accepts every non-negative timelock, *)
(* however large.                                                          *)
C12_UnboundedElsewhere ==
    \A c \in Made :
        ValidChildCall(c) =>
            IF WidthOf(c).v = 8
            THEN AboveUint64(c) => ~c.res.ok
            ELSE c.res.ok

(* C12, amended: the 64-bit ceiling, with its own error, is enforced only  *)
(* when timelockWidth is 8; with every other timelockWidth w the value is  *)
(* limited by the width alone: a timelock below 256^w is accepted, above   *)
(* 2^64 - 1 too, and encoded on w bytes, a larger one fails with the       *)
(* overflow error; a machine integer above Number.MAX_SAFE_INTEGER is      *)
(* rejected at every width.                                                *)
C12_CeilingOnlyAtEight ==
    \A c \in Made :
        ValidChildCall(c) =>
            IF UnsafeNumber(c.id)
            THEN FailsWith(c, "exceeds MAX_SAFE_INTEGER")
            ELSE IF WidthOf(c).v = 8 /\ AboveUint64(c)
            THEN FailsWith(c, "exceeds uint64 maximum")
            ELSE IF ~Fits(ValueOf(c.id), WidthOf(c))
            THEN FailsWith(c, "does not fit in width bytes")
            ELSE /\ c.res.ok
                 /\ Len(c.hk[1].salt) = WidthOf(c).v
                 /\ StripZeros(c.hk[1].salt) = ValueOf(c.id)

\* 2^64 accepted on 9 bytes
C12_Witness ==
    \E c \in Made :
        /\ ValidChildCall(c) /\ WidthOf(c).v = 9
        /\ ValueOf(c.id) = Pow64Mag /\ c.res.ok

\* 2^64 rejected on 8 bytes, 2^64 - 1 accepted
C12_CeilingWitness ==
    \E c \in Made :
        /\ ValidChildCall(c) /\ WidthOf(c).v = 8
        /\ \/ AboveUint64(c) /\ FailsWith(c, "exceeds uint64 maximum")
           \/ ValueOf(c.id) = Max64Mag /\ c.res.ok

-----------------------------------------------------------------------------
\* The fields a message of the two derivations can name
FieldNames ==
    {"signature", "chainId", "initialKey", "timelock",
     "outputLength", "chainIdWidth", "timelockWidth"}

\* The error is one the validation raises itself and its message names a field
NamesField(r) == r.err.type = "Error" /\ r.err.field \in FieldNames

(* C13: every failure of the two derivations is a validation error whose   *)
(* message names the offending field, the signature or initial key given   *)
(* as empty, odd-length or non-hex text and the chainId or timelock given  *)
(* as 0x followed by a non-hex character included.                         *)
C13_ErrorsNameField ==
    \A c \in Made : ~c.res.ok => NamesField(c.res)

\* The failures of the length, option and range checks do name their field
C13_NamedWitness ==
    \E c \in Made :
        /\ ~c.res.ok /\ NamesField(c.res)
        /\ c.op = "derive" /\ c.res.err.field = "timelock"

\* A chainId 0xg1 fails with the SyntaxError of BigInt
C13_SyntaxErrorWitness ==
    \E c \in Made :
        /\ c.op = "create" /\ c.id = Str(<<"0", "x", "g", "1">>)
        /\ ~c.res.ok /\ c.res.err.type = "SyntaxError"

-----------------------------------------------------------------------------
\* The secret of the call, coerced to b, is no hex text, or too short a
\* signature, or an initial key of the wrong length
SecretInvalid(c, b) ==
    \/ ~b.ok
    \/ c.op = "create" /\ Len(b.val) < MIN_SIGNATURE_BYTES
    \/ /\ c.op = "derive"
       /\ assertPositiveInt(OutputLengthOf(c), "outputLength").ok
       /\ Len(b.val) # OutputLengthOf(c).v

\* The call stopped at its secret: the error of the coercion, of the
\* signature floor or of the key length
SecretError(c, b) ==
    /\ ~c.res.ok /\ c.hk = <<>>
    /\ \/ c.res = b
       \/ c.op = "create" /\ SignatureTooShort(c)
       \/ c.op = "derive" /\ WrongKeyLength(c)

\* The options the call reads are positive integers
OptionsValid(c) ==
    /\ assertPositiveInt(OutputLengthOf(c), "outputLength").ok
    /\ assertPositiveInt(WidthOf(c), "width").ok

\* The encoding of the id of the call: of the chain id, of the timelock
IdEncoding(c) ==
    IF c.op = "create" THEN encodeChainId(c.id, WidthOf(c))
    ELSE encodeTimelock(c.id, WidthOf(c))

\* With its options valid, the call stops at the secret, coerced to b, if
\* that is invalid, whatever the id, else at the id, encoded to e, if that
\* is invalid, and calls HKDF only when both are valid
StepOrder(c, b, e) ==
    IF SecretInvalid(c, b) THEN SecretError(c, b)
    ELSE IF ~e.ok THEN c.hk = <<>> /\ c.res = e
    ELSE /\ c.res.ok
         /\ c.hk = <<[ikm |-> b.val, salt |-> e.val,
                      info |-> IF c.op = "create"
                               THEN OptGet(c.opts, "infoInitialLabel", INFO_INITIAL)
                               ELSE OptGet(c.opts, "infoTimelockLabel", INFO_TIMELOCK),
                      len |-> OutputLengthOf(c).v]>>

\* Every query HKDF has answered is the query of a call that returned a key
QueriesOfReturnedKeys ==
    \A q \in 1..Len(oracle) :
        \E i \in 1..Len(calls) :
            /\ calls[i].res.ok
            /\ oracle[q] = HkdfQuery(calls[i].hk[1].ikm, calls[i].hk[1].salt,
                                     calls[i].hk[1].info)

C14_ChildWitness ==
    \E c \in Made :
        /\ c.op = "derive" /\ c.id = Str(<<"-", "5">>) /\ c.opts = <<>>
        /\ \/ c.secret = HexAA(KEY_LENGTH + 1) /\ WrongKeyLength(c)
           \/ c.secret = Str(<<"0", "x", "G", "G">>)
              /\ c.res.err.msg = "Invalid hex string"

====
